---------------------------- MODULE Spec2Model ----------------------------
(***************************************************************************)
(* Model of the lem-in route solver of src/utils/paths.go:                 *)
(*   allPaths          - capped depth-first enumeration of Start-End routes *)
(*   bestDisjointPaths - skip/include search for the best disjoint subset   *)
(*   FindPaths         - enumerate, sort, select                            *)
(*   countTurns        - linear scan for the minimal number of turns        *)
(* Rooms are the integers 1..NumRooms; a *Room pointer is the room number.  *)
(* Go slices are 0-based: a stored route index i names all[i+1] here.       *)
(***************************************************************************)
EXTENDS Integers, Sequences, FiniteSets, TLC

VARIABLES
    g,          \* the Graph: [Links, Start, End, Ants]
    maxPaths,   \* the cap FindPaths hands to allPaths (MaxPaths)
    pc,         \* position of the running function
    all,        \* FindPaths' route list (enumerated, then sorted in place)
    stack,      \* call stack of rec: frames [i, cur, idxs, at]
    used,       \* rec's used map: the rooms mapped to true
    best,       \* bestDisjointPaths' best
    bestIdx,    \* bestDisjointPaths' bestIdx
    bestTurns,  \* bestDisjointPaths' bestTurns
    ants,       \* countTurns' parameter ants
    lens,       \* countTurns' parameter lens
    turns,      \* countTurns' loop variable turns
    starts,     \* assignPaths' starts: tokens per route
    order,      \* assignPaths' result: a route index for every token
    sessions,   \* table sessions: rows [id, user_id, expires_at]
    clock,      \* time.Now()
    requests,   \* the requests in flight and served, with what each has read
    posts,      \* table posts: the ids inserted
    categories, \* table categories: rows [id, name]
    postCategories, \* table post_categories: rows <<post_id, category_id>>
    handlers    \* the HandleNewPost calls in flight and served

vars == <<g, maxPaths, pc, all, stack, used, best, bestIdx, bestTurns,
          ants, lens, turns, starts, order, sessions, clock, requests,
          posts, categories, postCategories, handlers>>

solverVars == <<g, maxPaths, all, stack, used, best, bestIdx, bestTurns>>
scanVars == <<ants, lens, turns>>
assignVars == <<starts, order>>
authVars == <<sessions, clock, requests>>
postVars == <<posts, categories, postCategories, handlers>>
webVars == <<authVars, postVars>>

---------------------------------------------------------------------------
\* Bounds of the model.

\* Rooms of a graph: room 1 is Start, room NumRooms is End (unless Start = End).
NumRooms == 4
\* Largest token count of a graph (the smallest is -1).
MaxAnts == 3
\* Largest cap handed to allPaths (the smallest is 0).
MaxLimit == 5
\* Largest hop count, list length and token count of a countTurns call.
MaxHop == 3
MaxRoutes == 3
MaxScanAnts == 5

\* int(^uint(0) >> 1) is 2^63-1 in the program; the model's integers are 32 bits
\* wide, and the value is only ever compared with turn counts.
MaxInt == 2147483647

Rooms == 1..NumRooms
AntsDomain == (0 - 1)..MaxAnts
ScanAntsDomain == (0 - 1)..MaxScanAnts
\* No scan of the model's inputs with a non-empty lens goes further than this.
ScanCap == MaxScanAnts + MaxAnts + MaxHop + NumRooms

Min(a, b) == IF a <= b THEN a ELSE b
Max(a, b) == IF a >= b THEN a ELSE b
Range(s) == {s[k] : k \in 1..Len(s)}

---------------------------------------------------------------------------
\* countTurns (lines 163-175)

RECURSIVE TurnTotalFrom(_, _, _, _)
TurnTotalFrom(lns, t, k, total) ==
    IF k > Len(lns) THEN total
    ELSE TurnTotalFrom(lns, t, k + 1,
                       IF t - lns[k] >= 0 THEN total + (t - lns[k] + 1) ELSE total)

\* A route whose hop count equals the turn is left out (turns-l > 0).
TurnTotalStrict(lns, t) ==
    LET RECURSIVE Sum(_, _)
        Sum(k, total) ==
            IF k > Len(lns) THEN total
            ELSE Sum(k + 1, IF t - lns[k] > 0 THEN total + (t - lns[k] + 1) ELSE total)
    IN Sum(1, 0)

\* The route's share added with the hop count's sign reversed (turns + l + 1).
TurnTotalSum(lns, t) ==
    LET RECURSIVE Sum(_, _)
        Sum(k, total) ==
            IF k > Len(lns) THEN total
            ELSE Sum(k + 1, IF t - lns[k] >= 0 THEN total + (t + lns[k] + 1) ELSE total)
    IN Sum(1, 0)

\* The inner loop: total of the turn.
TurnTotal(lns, t) == TurnTotalFrom(lns, t, 1, 0)

\* The comparison with its operands exchanged (ants >= total).
EnoughSwapped(total, a) == a >= total

\* The return test: total >= ants.
Enough(total, a) == total >= a

\* The scan from a given turn. The program's loop has no upper end; every call
\* with a non-empty lens returns below ScanCap, where the model stops a scan.
RECURSIVE countTurnsFrom(_, _, _)
countTurnsFrom(a, lns, t) ==
    IF Enough(TurnTotal(lns, t), a) THEN t
    ELSE IF t >= ScanCap THEN t
    ELSE countTurnsFrom(a, lns, t + 1)

countTurns(a, lns) == countTurnsFrom(a, lns, 1)

---------------------------------------------------------------------------
\* The graphs of the model: every symmetric link set over Rooms, each room's
\* Links in ascending or in descending room order.

Pairs == {pr \in Rooms \X Rooms : pr[1] < pr[2]}

Neighbours(E, r) == {n \in Rooms : <<r, n>> \in E \/ <<n, r>> \in E}

RECURSIVE SortedSeq(_, _)
SortedSeq(S, asc) ==
    IF S = {} THEN <<>>
    ELSE LET x == IF asc THEN CHOOSE m \in S : \A n \in S : m <= n
                  ELSE CHOOSE m \in S : \A n \in S : m >= n
         IN <<x>> \o SortedSeq(S \ {x}, asc)

Graphs ==
    {[Links |-> [r \in Rooms |-> SortedSeq(Neighbours(E, r), asc)],
      Start |-> 1, End |-> e, Ants |-> a] :
        E \in SUBSET Pairs, asc \in BOOLEAN, e \in {1, NumRooms}, a \in AntsDomain}

---------------------------------------------------------------------------
\* allPaths (lines 5-41). The closure's res, path and visited are threaded
\* through dfs as the record st; visited holds the rooms mapped to true.

\* The cap test with > for >=.
CapReachedLate(res, limit) == Len(res) > limit

\* len(res) >= limit (line 13)
CapReached(res, limit) == Len(res) >= limit

\* The copy of the path without the room just reached.
RecordPathShort(path, r) == path

\* append(append([]*Room{}, path...), r) (line 19)
RecordPath(path, r) == Append(path, r)

\* The room left marked on the way back.
UnvisitNone(visited, r) == visited

\* visited[r] = false (line 38)
Unvisit(visited, r) == visited \ {r}

RECURSIVE dfs(_, _, _, _)
RECURSIVE dfsLinks(_, _, _, _, _)

dfs(gr, limit, r, st) ==
    IF CapReached(st.res, limit) THEN st
    ELSE IF r = gr.End
    THEN [st EXCEPT !.res = Append(@, RecordPath(st.path, r))]
    ELSE LET entered == [st EXCEPT !.visited = @ \cup {r}, !.path = Append(@, r)]
             after == dfsLinks(gr, limit, r, 1, entered)
         IN [after EXCEPT !.path = SubSeq(@, 1, Len(@) - 1),
                          !.visited = Unvisit(@, r)]

\* for _, nb := range r.Links (lines 29-33), from position k on
dfsLinks(gr, limit, r, k, st) ==
    IF k > Len(gr.Links[r]) THEN st
    ELSE LET nb == gr.Links[r][k]
         IN dfsLinks(gr, limit, r, k + 1,
                     IF nb \notin st.visited THEN dfs(gr, limit, nb, st) ELSE st)

allPaths(gr, limit) ==
    dfs(gr, limit, gr.Start, [res |-> <<>>, path |-> <<>>, visited |-> {}]).res

---------------------------------------------------------------------------
\* FindPaths' sort (lines 146-156). sort.SliceStable on fewer than 21
\* elements is an insertion sort that calls less(j, j-1) on the slice as it
\* stands; MaxLimit keeps the list that short.

\* Equal lengths answered by the later position (i > j).
lessLaterFirst(a, i, j) ==
    LET li == Len(a[i])
        lj == Len(a[j])
    IN IF li = lj THEN i > j ELSE li < lj

\* The comparator: positions i and j of the slice a.
less(a, i, j) ==
    LET li == Len(a[i])
        lj == Len(a[j])
    IN IF li = lj THEN i < j ELSE li < lj

Swap(a, i, j) == [a EXCEPT ![i] = a[j], ![j] = a[i]]

RECURSIVE insertDown(_, _)
insertDown(a, j) ==
    IF j > 1 /\ less(a, j, j - 1) THEN insertDown(Swap(a, j, j - 1), j - 1) ELSE a

RECURSIVE insertionSortFrom(_, _)
insertionSortFrom(a, i) ==
    IF i > Len(a) THEN a ELSE insertionSortFrom(insertDown(a, i), i + 1)

SliceStable(a) == insertionSortFrom(a, 2)

---------------------------------------------------------------------------
\* bestDisjointPaths (lines 43-136)

\* p[1 : len(p)-1], for a p of at least two rooms
Interior(p) == {p[k] : k \in 2..(Len(p) - 1)}

\* lens[j] = len(path) - 1 (lines 60-63)
HopCounts(cur) == [j \in 1..Len(cur) |-> Len(cur[j]) - 1]

\* The loop of lines 76-83 from position k on: TRUE when it sets better.
RECURSIVE IndexLoop(_, _, _)
IndexLoop(idxs, bIdx, k) ==
    IF ~(k <= Len(idxs) /\ k <= Len(bIdx)) THEN FALSE
    ELSE IF idxs[k] < bIdx[k] THEN TRUE
    ELSE IF idxs[k] > bIdx[k] THEN FALSE
    ELSE IndexLoop(idxs, bIdx, k + 1)

\* The first test reversed (t > bestTurns).
BetterReversed(t, idxs, bTurns, bIdx) ==
    IF t > bTurns THEN TRUE
    ELSE IF t = bTurns
    THEN IndexLoop(idxs, bIdx, 1) \/ Len(idxs) < Len(bIdx)
    ELSE FALSE

\* The first test with <= for <: every tie replaces the stored best.
BetterOrEqual(t, idxs, bTurns, bIdx) ==
    IF t <= bTurns THEN TRUE
    ELSE FALSE

\* The second test reversed (the larger index wins).
BetterLargerIndex(t, idxs, bTurns, bIdx) ==
    IF t < bTurns THEN TRUE
    ELSE IF t = bTurns
    THEN IndexLoop(bIdx, idxs, 1) \/ Len(idxs) < Len(bIdx)
    ELSE FALSE

\* better (lines 69-88)
Better(t, idxs, bTurns, bIdx) ==
    IF t < bTurns THEN TRUE
    ELSE IF t = bTurns
    THEN IndexLoop(idxs, bIdx, 1) \/ Len(idxs) < Len(bIdx)
    ELSE FALSE

\* Every path passes the test.
ValidAlways(p, usedRooms) == TRUE

\* valid (lines 108-115)
Valid(p, usedRooms) == \A r \in Interior(p) : r \notin usedRooms

\* The rooms stay marked on the way back.
UnmarkNothing(p, usedRooms) == usedRooms

\* delete(used, r) for the middle rooms of p (lines 128-130)
Unmark(p, usedRooms) == usedRooms \ Interior(p)

Top == stack[Len(stack)]
Pop == SubSeq(stack, 1, Len(stack) - 1)
Frame(i, cur, idxs, at) == [i |-> i, cur |-> cur, idxs |-> idxs, at |-> at]

---------------------------------------------------------------------------
\* FindPaths (lines 139-160), one run per graph and cap.

\* The parts of the state a run does not use.
AssignIdle == starts = <<>> /\ order = <<>>

AuthIdle == sessions = {} /\ clock = 0 /\ requests = <<>>

PostIdle == posts = {} /\ categories = {} /\ postCategories = {} /\ handlers = <<>>

NoGraph == [Links |-> [r \in Rooms |-> <<>>], Start |-> 1, End |-> NumRooms, Ants |-> 0]

Init ==
    /\ g \in Graphs
    /\ maxPaths \in 0..MaxLimit
    /\ pc = "FindPaths"
    /\ all = <<>>
    /\ stack = <<>>
    /\ used = {}
    /\ best = <<>>
    /\ bestIdx = <<>>
    /\ bestTurns = MaxInt
    /\ ants = 0
    /\ lens = <<>>
    /\ turns = 0
    /\ AssignIdle
    /\ AuthIdle
    /\ PostIdle

\* all := allPaths(g, MaxPaths) (line 143)
Enumerate ==
    /\ pc = "FindPaths"
    /\ all' = allPaths(g, maxPaths)
    /\ pc' = "sort"
    /\ UNCHANGED <<g, maxPaths, stack, used, best, bestIdx, bestTurns, scanVars, assignVars, webVars>>

\* The sort, then the call of bestDisjointPaths up to rec(0, nil, nil, {})
\* (lines 146-159, 44-47, 134).
Sort ==
    /\ pc = "sort"
    /\ all' = SliceStable(all)
    /\ bestTurns' = MaxInt
    /\ best' = <<>>
    /\ bestIdx' = <<>>
    /\ used' = {}
    /\ stack' = <<Frame(0, <<>>, <<>>, "enter")>>
    /\ pc' = "rec"
    /\ UNCHANGED <<g, maxPaths, scanVars, assignVars, webVars>>

\* Base case with nothing chosen (lines 53-57).
RecLeafEmpty ==
    /\ pc = "rec" /\ stack # <<>>
    /\ Top.at = "enter" /\ Top.i = Len(all)
    /\ Len(Top.cur) = 0
    /\ stack' = Pop
    /\ UNCHANGED <<g, maxPaths, pc, all, used, best, bestIdx, bestTurns, scanVars, assignVars, webVars>>

\* Base case with a combination to score (lines 59-96).
RecLeafScore ==
    /\ pc = "rec" /\ stack # <<>>
    /\ Top.at = "enter" /\ Top.i = Len(all)
    /\ Len(Top.cur) # 0
    /\ LET t == countTurns(g.Ants, HopCounts(Top.cur))
       IN IF Better(t, Top.idxs, bestTurns, bestIdx)
          THEN /\ bestTurns' = t
               /\ best' = Top.cur
               /\ bestIdx' = Top.idxs
          ELSE UNCHANGED <<bestTurns, best, bestIdx>>
    /\ stack' = Pop
    /\ UNCHANGED <<g, maxPaths, pc, all, used, scanVars, assignVars, webVars>>

\* Option 1: rec(i+1, cur, idxs, used) (line 102).
RecSkip ==
    /\ pc = "rec" /\ stack # <<>>
    /\ Top.at = "enter" /\ Top.i < Len(all)
    /\ stack' = Append([stack EXCEPT ![Len(stack)].at = "skipped"],
                       Frame(Top.i + 1, Top.cur, Top.idxs, "enter"))
    /\ UNCHANGED <<g, maxPaths, pc, all, used, best, bestIdx, bestTurns, scanVars, assignVars, webVars>>

\* p[1 : len(p)-1] of a path of one room: slice bounds out of range (line 110).
RecPanic ==
    /\ pc = "rec" /\ stack # <<>>
    /\ Top.at = "skipped"
    /\ Len(all[Top.i + 1]) < 2
    /\ pc' = "panic"
    /\ UNCHANGED <<g, maxPaths, all, stack, used, best, bestIdx, bestTurns, scanVars, assignVars, webVars>>

\* Option 2 refused: a middle room is used already (lines 108-118).
RecPruned ==
    /\ pc = "rec" /\ stack # <<>>
    /\ Top.at = "skipped"
    /\ Len(all[Top.i + 1]) >= 2
    /\ ~Valid(all[Top.i + 1], used)
    /\ stack' = Pop
    /\ UNCHANGED <<g, maxPaths, pc, all, used, best, bestIdx, bestTurns, scanVars, assignVars, webVars>>

\* Option 2 taken: mark, rec(i+1, append(cur, p), append(idxs, i), used)
\* (lines 118-125).
RecInclude ==
    /\ pc = "rec" /\ stack # <<>>
    /\ Top.at = "skipped"
    /\ Len(all[Top.i + 1]) >= 2
    /\ Valid(all[Top.i + 1], used)
    /\ used' = used \cup Interior(all[Top.i + 1])
    /\ stack' = Append([stack EXCEPT ![Len(stack)].at = "included"],
                       Frame(Top.i + 1, Append(Top.cur, all[Top.i + 1]),
                             Append(Top.idxs, Top.i), "enter"))
    /\ UNCHANGED <<g, maxPaths, pc, all, best, bestIdx, bestTurns, scanVars, assignVars, webVars>>

\* Backtrack (lines 127-131).
RecUnmark ==
    /\ pc = "rec" /\ stack # <<>>
    /\ Top.at = "included"
    /\ used' = Unmark(all[Top.i + 1], used)
    /\ stack' = Pop
    /\ UNCHANGED <<g, maxPaths, pc, all, best, bestIdx, bestTurns, scanVars, assignVars, webVars>>

\* return best (line 135), returned by FindPaths (line 159)
Return ==
    /\ pc = "rec" /\ stack = <<>>
    /\ pc' = "done"
    /\ UNCHANGED <<solverVars, scanVars, assignVars, webVars>>

Next ==
    \/ Enumerate
    \/ Sort
    \/ RecLeafEmpty
    \/ RecLeafScore
    \/ RecSkip
    \/ RecPanic
    \/ RecPruned
    \/ RecInclude
    \/ RecUnmark
    \/ Return

Spec == Init /\ [][Next]_vars

---------------------------------------------------------------------------
\* countTurns as a loop, one run per token count and list of hop counts.

RECURSIVE SeqsUpTo(_, _)
SeqsUpTo(S, n) ==
    IF n = 0 THEN {<<>>}
    ELSE LET shorter == SeqsUpTo(S, n - 1)
         IN shorter \cup {Append(q, x) : q \in {z \in shorter : Len(z) = n - 1}, x \in S}

InitScan ==
    /\ ants \in ScanAntsDomain
    /\ lens \in SeqsUpTo(1..MaxHop, MaxRoutes)
    /\ turns = 1
    /\ pc = "scan"
    /\ g = NoGraph
    /\ maxPaths = 0
    /\ all = <<>>
    /\ stack = <<>>
    /\ used = {}
    /\ best = <<>>
    /\ bestIdx = <<>>
    /\ bestTurns = MaxInt
    /\ AssignIdle
    /\ AuthIdle
    /\ PostIdle

\* turns++ (line 164): the total of this turn is below ants
ScanNext ==
    /\ pc = "scan"
    /\ ~Enough(TurnTotal(lens, turns), ants)
    /\ turns < ScanCap
    /\ turns' = turns + 1
    /\ UNCHANGED <<solverVars, pc, ants, lens, assignVars, webVars>>

\* return turns (lines 171-173)
ScanReturn ==
    /\ pc = "scan"
    /\ Enough(TurnTotal(lens, turns), ants)
    /\ pc' = "returned"
    /\ UNCHANGED <<solverVars, scanVars, assignVars, webVars>>

NextScan == ScanNext \/ ScanReturn

SpecScan == InitScan /\ [][NextScan]_vars

---------------------------------------------------------------------------
\* Properties of countTurns, checked under SpecScan.

\* Capacity of a route set at turn T: the sum over lens of max(0, T - L + 1).
RECURSIVE Capacity(_, _)
Capacity(lns, T) ==
    IF lns = <<>> THEN 0
    ELSE Max(0, T - Head(lns) + 1) + Capacity(Tail(lns), T)

\* C1: for ants >= 1 and a non-empty lens of hop counts >= 1, the scan passes
\* no turn whose capacity already covers ants, and the turn it returns is
\* >= 1 and has capacity >= ants: it returns the least such turn. With
\* lens [2,3] and 5 ants that is 4, with lens [1] and 3 ants it is 3.
C1_LeastTurns ==
    (pc \in {"scan", "returned"} /\ ants >= 1 /\ lens # <<>>) =>
        /\ \A T \in 1..(turns - 1) : Capacity(lens, T) < ants
        /\ pc = "returned" =>
              /\ turns >= 1
              /\ Capacity(lens, turns) >= ants
              /\ (lens = <<2, 3>> /\ ants = 5) => turns = 4
              /\ (lens = <<1>> /\ ants = 3) => turns = 3
        /\ pc = "scan" => (Capacity(lens, turns) >= ants \/ turns < ScanCap)

C1_Witness ==
    pc = "returned" /\ lens = <<2, 3>> /\ ants = 5 /\ turns = 4
    /\ Capacity(lens, 4) = 5 /\ Capacity(lens, 3) < 5

\* C10: for a fixed non-empty lens, countTurns does not decrease with the
\* token count: the turn returned for ants is at least the turn countTurns
\* gives for every smaller token count.
C10_MonotoneInAnts ==
    (pc = "returned" /\ lens # <<>>) =>
        \A a1 \in ScanAntsDomain : a1 <= ants => countTurns(a1, lens) <= turns

C10_Witness ==
    /\ pc = "returned" /\ lens # <<>> /\ ants >= 2
    /\ countTurns(ants - 1, lens) < turns
    /\ countTurns(1, lens) <= countTurns(ants - 1, lens)

---------------------------------------------------------------------------
\* Properties of the solver, checked under Spec.

\* The routes at the positions S of the list a, in list order.
RECURSIVE Pick(_, _, _)
Pick(a, S, k) ==
    IF k > Len(a) THEN <<>>
    ELSE (IF k \in S THEN <<a[k]>> ELSE <<>>) \o Pick(a, S, k + 1)

\* The 0-based indices of the positions S, ascending.
RECURSIVE PickIdx(_, _, _)
PickIdx(n, S, k) ==
    IF k > n THEN <<>>
    ELSE (IF k \in S THEN <<k - 1>> ELSE <<>>) \o PickIdx(n, S, k + 1)

Disjoint(a, S) ==
    \A i \in S, j \in S : i # j => Interior(a[i]) \cap Interior(a[j]) = {}

\* The non-empty subsets of the list whose routes are pairwise interior-disjoint.
Feasible == {S \in SUBSET (1..Len(all)) : S # {} /\ Disjoint(all, S)}

TurnsOf(S) == countTurns(g.Ants, HopCounts(Pick(all, S, 1)))

\* End can be reached from Start along links.
RECURSIVE Reach(_)
Reach(S) ==
    LET N == S \cup {n \in Rooms : \E r \in S : n \in Range(g.Links[r])}
    IN IF N = S THEN S ELSE Reach(N)

Connected == g.End \in Reach({g.Start})

\* What the caller of FindPaths gets: a route list, or a panic.
Outcome ==
    IF pc = "panic" THEN "panic" ELSE IF pc = "done" THEN "routes" ELSE "running"

\* C2: any two distinct routes of the stored best set, and so of the set
\* FindPaths returns, have disjoint interiors; the only rooms two of them
\* share are Start and End.
C2_DisjointInteriors ==
    \A i \in 1..Len(best), j \in 1..Len(best) :
        i # j =>
            /\ Interior(best[i]) \cap Interior(best[j]) = {}
            /\ Range(best[i]) \cap Range(best[j]) \subseteq {g.Start, g.End}

C2_Witness ==
    /\ pc = "done" /\ Len(best) >= 2
    /\ \E i \in 1..Len(best), j \in 1..Len(best) :
          i # j /\ Interior(best[i]) # {} /\ Interior(best[j]) # {}
    /\ \E i \in 1..Len(all), j \in 1..Len(all) :
          Interior(all[i]) \cap Interior(all[j]) # {} /\ i # j

\* C3: for ants >= 1 the returned set needs no more turns than any non-empty
\* pairwise interior-disjoint subset of the enumerated routes (and there is
\* a returned set whenever there is such a subset).
C3_MinimalTurns ==
    (pc = "done" /\ g.Ants >= 1 /\ g.Start # g.End) =>
        \A S \in Feasible :
            /\ best # <<>>
            /\ countTurns(g.Ants, HopCounts(best)) <= TurnsOf(S)
            /\ bestTurns <= TurnsOf(S)

C3_Witness ==
    /\ pc = "done" /\ g.Ants >= 1 /\ g.Start # g.End
    /\ \E S \in Feasible, R \in Feasible : TurnsOf(S) < TurnsOf(R)
    /\ \E S \in SUBSET (1..Len(all)) : ~Disjoint(all, S)
    /\ Len(best) >= 2

\* The first position, within the shorter length, where two sequences differ
\* (0 when one is a prefix of the other).
RECURSIVE FirstDiff(_, _, _)
FirstDiff(a, b, k) ==
    IF k > Len(a) \/ k > Len(b) THEN 0
    ELSE IF a[k] # b[k] THEN k
    ELSE FirstDiff(a, b, k + 1)

\* The feasible subsets that need as few turns as any.
Tying == {S \in Feasible : \A R \in Feasible : TurnsOf(S) <= TurnsOf(R)}

\* C4: the returned set is one of the feasible subsets that tie on the minimum
\* turn count, and against every other one of them its index sequence has
\* the smaller index at the first position where the two differ.
C4_SmallestIndexes ==
    (pc = "done" /\ g.Start # g.End /\ Feasible # {}) =>
        /\ \E S \in Tying :
              bestIdx = PickIdx(Len(all), S, 1) /\ best = Pick(all, S, 1)
        /\ \A S \in Tying :
              LET other == PickIdx(Len(all), S, 1)
                  d == FirstDiff(bestIdx, other, 1)
              IN d # 0 => bestIdx[d] < other[d]

C4_Witness ==
    /\ pc = "done" /\ g.Start # g.End /\ g.Ants >= 2
    /\ \E S \in Tying :
          LET other == PickIdx(Len(all), S, 1)
              d == FirstDiff(bestIdx, other, 1)
          IN d > 1 /\ bestIdx[d] < other[d]

\* C5: with Start # End every route allPaths returns starts at Start, ends
\* at End, repeats no room, follows a link at every step and has at least
\* one edge.
C5_SimpleRoutes ==
    (pc = "sort" /\ g.Start # g.End) =>
        \A n \in 1..Len(all) :
            LET p == all[n]
            IN /\ Len(p) >= 2
               /\ p[1] = g.Start
               /\ p[Len(p)] = g.End
               /\ \A i \in 1..Len(p), j \in 1..Len(p) : i # j => p[i] # p[j]
               /\ \A i \in 1..(Len(p) - 1) : p[i + 1] \in Range(g.Links[p[i]])

C5_Witness ==
    /\ pc = "sort" /\ g.Start # g.End /\ Len(all) >= 2
    /\ \E n \in 1..Len(all) : Len(all[n]) >= 4

\* C6: allPaths(g, limit) returns at most limit routes, and they are the
\* first min(limit, n) routes, in order, of the n routes the traversal
\* finds without a cap.
C6_CapIsPrefix ==
    pc = "sort" =>
        LET full == allPaths(g, MaxInt)
        IN /\ Len(all) <= maxPaths
           /\ all = SubSeq(full, 1, Min(maxPaths, Len(full)))

C6_Witness ==
    /\ pc = "sort" /\ maxPaths >= 2
    /\ Len(allPaths(g, MaxInt)) > maxPaths
    /\ Len(all) = maxPaths

\* Start # End, MaxPaths >= 1 and a positive token count.
ValidInput == g.Start # g.End /\ maxPaths >= 1 /\ g.Ants >= 1

\* An upper bound on the steps of rec on m routes still to decide:
\* 1 for a base case, else skip + subtree + include + subtree + unmark.
RECURSIVE SubtreeSteps(_)
SubtreeSteps(m) == IF m <= 0 THEN 1 ELSE 3 + 2 * SubtreeSteps(m - 1)

RECURSIVE FramesSteps(_)
FramesSteps(k) ==
    IF k = 0 THEN 0
    ELSE LET f == stack[k]
         IN FramesSteps(k - 1) +
            (IF f.at = "enter" THEN SubtreeSteps(Len(all) - f.i)
             ELSE IF f.at = "skipped" THEN 2 + SubtreeSteps(Len(all) - f.i - 1)
             ELSE 1)

\* An upper bound on the steps the run still takes.
StepsLeft ==
    IF pc = "FindPaths" THEN 3 + SubtreeSteps(maxPaths)
    ELSE IF pc = "sort" THEN 2 + SubtreeSteps(Len(all))
    ELSE IF pc = "rec" THEN 1 + FramesSteps(Len(stack))
    ELSE 0

\* The guards of the solver's actions: the run can take a step.
CanStep ==
    \/ pc \in {"FindPaths", "sort"}
    \/ pc = "rec" /\ stack = <<>>
    \/ pc = "rec" /\ stack # <<>> /\ Top.at = "enter" /\ Top.i <= Len(all)
    \/ pc = "rec" /\ stack # <<>> /\ Top.at = "skipped" /\ Top.i < Len(all)
    \/ pc = "rec" /\ stack # <<>> /\ Top.at = "included"

\* C7: on valid input FindPaths returns, without a panic: the run never
\* panics, can always take a step until it has returned, and every step
\* lowers the bound StepsLeft, which is never negative. The set it returns is
\* non-empty, with a turn count set, when End can be reached from Start and
\* empty when it cannot.
C7_ReturnsRoutes ==
    /\ [](ValidInput =>
            /\ pc # "panic"
            /\ pc # "done" => CanStep
            /\ StepsLeft >= 0
            /\ pc = "done" =>
                  /\ Connected => (best # <<>> /\ bestTurns < MaxInt)
                  /\ ~Connected => best = <<>>)
    /\ [][ValidInput => StepsLeft' < StepsLeft]_vars

C7_Witness ==
    /\ pc = "done" /\ ValidInput /\ Connected
    /\ best # <<>> /\ bestTurns < MaxInt
    /\ Len(all) = maxPaths

\* Zero or negative token count, or Start = End.
Degenerate == g.Ants <= 0 \/ g.Start = g.End

\* C8: a run on degenerate input ends in an invalid-input outcome: it neither
\* panics nor returns a route list.
C8_DegenerateRejected ==
    (Degenerate /\ pc \in {"done", "panic"}) => Outcome = "invalid input"

\* C9: a run whose enumeration was cut off by the cap ends in a best-effort
\* outcome, not in the plain route list of a complete search.
C9_TruncationReported ==
    (pc = "done" /\ ValidInput /\ Len(allPaths(g, MaxInt)) > Len(all)) =>
        Outcome = "best effort"

---------------------------------------------------------------------------
\* The smallest hop count of a non-empty list.
MinHop(lns) == CHOOSE m \in Range(lns) : \A x \in Range(lns) : m <= x

\* The lists got from lns by raising one smallest hop count, and nothing else.
MinRaised(lns) ==
    {[lns EXCEPT ![k] = @ + d] : k \in {j \in 1..Len(lns) : lns[j] = MinHop(lns)},
                                 d \in 1..MaxHop}

\* C11 as stated: raising only the smallest hop count of the list never raises
\* the turn count countTurns returns for the same token count.
C11_NonIncreasingInMinHop ==
    (pc = "returned" /\ lens # <<>>) =>
        \A lens2 \in MinRaised(lens) : countTurns(ants, lens2) <= turns

\* C11, amended: raising only the smallest hop count of the list never lowers
\* the turn count countTurns returns for the same token count.
C11_NonDecreasingInMinHop ==
    (pc = "returned" /\ lens # <<>>) =>
        \A lens2 \in MinRaised(lens) : countTurns(ants, lens2) >= turns

\* Several routes and tokens, and a raise that makes the scan run longer.
C11_Witness ==
    /\ pc = "returned" /\ Len(lens) >= 2 /\ ants >= 2
    /\ \E lens2 \in MinRaised(lens) : countTurns(ants, lens2) > turns
    /\ \E lens2 \in MinRaised(lens) : countTurns(ants, lens2) = turns

---------------------------------------------------------------------------
\* The state in which FindPaths calls bestDisjointPaths.
SelectorCalled == pc = "rec" /\ stack = <<Frame(0, <<>>, <<>>, "enter")>>

\* The position of route p in the list a, which holds it once.
PosIn(a, p) == CHOOSE k \in 1..Len(a) : a[k] = p

\* C12: the list FindPaths hands to bestDisjointPaths is a permutation of the
\* enumerated routes, in non-decreasing hop count, routes of equal hop count
\* in the order the enumeration found them.
C12_StableByHops ==
    SelectorCalled =>
        LET found == allPaths(g, maxPaths)
        IN /\ Len(all) = Len(found)
           /\ \A k \in 1..Len(found) :
                 Cardinality({j \in 1..Len(all) : all[j] = found[k]}) =
                 Cardinality({j \in 1..Len(found) : found[j] = found[k]})
           /\ \A i, j \in 1..Len(all) :
                 i < j => /\ Len(all[i]) <= Len(all[j])
                          /\ Len(all[i]) = Len(all[j]) =>
                                PosIn(found, all[i]) < PosIn(found, all[j])

\* The sort moved a route, and left two routes of equal hop count, found in
\* this order, next to a shorter one that was found after them.
C12_Witness ==
    /\ SelectorCalled
    /\ LET found == allPaths(g, maxPaths)
       IN /\ all # found
          /\ \E i, j, k \in 1..Len(found) :
                /\ i < j /\ j < k
                /\ Len(found[i]) = Len(found[j])
                /\ Len(found[k]) < Len(found[i])

---------------------------------------------------------------------------
\* The walks from Start that repeat no room and stop at End, grown link by
\* link for n rounds.
RECURSIVE Walks(_)
Walks(n) ==
    IF n = 0 THEN {<<g.Start>>}
    ELSE LET W == Walks(n - 1)
         IN W \cup UNION {{Append(w, nb) : nb \in Range(g.Links[w[Len(w)]]) \ Range(w)} :
                           w \in {v \in W : v[Len(v)] # g.End}}

\* Every simple path from Start to End of the graph.
SimplePaths == {w \in Walks(NumRooms - 1) : w[Len(w)] = g.End}

\* C16: when the graph has fewer simple Start-to-End paths than the limit,
\* allPaths returns each of them, once.
C16_EveryPathOnce ==
    (pc = "sort" /\ g.Start # g.End /\ Cardinality(SimplePaths) < maxPaths) =>
        /\ Range(all) = SimplePaths
        /\ Len(all) = Cardinality(SimplePaths)

\* A graph with a route through a room that an earlier route has left again.
C16_Witness ==
    /\ pc = "sort" /\ g.Start # g.End
    /\ Cardinality(SimplePaths) < maxPaths
    /\ Len(all) >= 3
    /\ \E i, j \in 1..Len(all) : i < j /\ Interior(all[i]) \cap Interior(all[j]) # {}

---------------------------------------------------------------------------
\* The search is about to score the combination on top of the stack.
AtScore ==
    /\ pc = "rec" /\ stack # <<>>
    /\ Top.at = "enter" /\ Top.i = Len(all)
    /\ Len(Top.cur) # 0

\* The candidate on top of the stack needs as many turns as the stored best.
TieAtScore == AtScore /\ countTurns(g.Ants, HopCounts(Top.cur)) = bestTurns

\* C17: a candidate that ties on turns and replaces the stored best is smaller
\* than it at the first position where their index sequences differ; fewer
\* routes decide only when no position differs. No tying candidate that is
\* larger at the first differing position replaces the stored best.
C17_TieByIndexFirst ==
    (TieAtScore /\ Better(bestTurns, Top.idxs, bestTurns, bestIdx)) =>
        LET d == FirstDiff(Top.idxs, bestIdx, 1)
        IN IF d # 0 THEN Top.idxs[d] < bestIdx[d]
           ELSE Len(Top.idxs) < Len(bestIdx)

\* A tying candidate of fewer routes than the stored best, differing from it
\* within the compared prefix, which is about to replace it.
C17_Witness ==
    /\ TieAtScore
    /\ Better(bestTurns, Top.idxs, bestTurns, bestIdx)
    /\ Len(Top.idxs) < Len(bestIdx)
    /\ FirstDiff(Top.idxs, bestIdx, 1) # 0

---------------------------------------------------------------------------
\* assignPaths (lines 177-189), called with the routes FindPaths returned and
\* the graph's token count. Its helpers getLens, countStarts, trimStarts and
\* planOrder are described by the Token Scheduler's contract: hop counts, the
\* routes' capacities at the turn count, the surplus taken away, and the
\* departures interleaved route by route.

\* The hop count of every route.
getLens(paths) == [j \in 1..Len(paths) |-> Len(paths[j]) - 1]

\* How many tokens can start on each route and arrive by turn t.
countStarts(lns, t) == [j \in 1..Len(lns) |-> Max(0, t - lns[j] + 1)]

RECURSIVE SumFrom(_, _)
SumFrom(s, k) == IF k > Len(s) THEN 0 ELSE s[k] + SumFrom(s, k + 1)

\* The ways to take the surplus away: no route gets more than it had, and
\* the counts add up to the token count. Nothing is taken when there is no
\* surplus.
trimStarts(st, a) ==
    IF SumFrom(st, 1) <= a THEN {st}
    ELSE {s \in [1..Len(st) -> 0..Max(a, 0)] :
             /\ \A j \in 1..Len(st) : s[j] <= st[j]
             /\ SumFrom(s, 1) = Max(a, 0)}

\* The order of departure: slot by slot, within a slot route by route; the
\* result names a route index (from 0) for every token.
RECURSIVE planOrderFrom(_, _, _)
planOrderFrom(st, slot, j) ==
    IF \A r \in 1..Len(st) : st[r] < slot THEN <<>>
    ELSE IF j > Len(st) THEN planOrderFrom(st, slot + 1, 1)
    ELSE (IF st[j] >= slot THEN <<j - 1>> ELSE <<>>) \o planOrderFrom(st, slot, j + 1)

planOrder(st) == planOrderFrom(st, 1, 1)

\* lens := getLens(paths); turns := countTurns(ants, lens), entered.
AssignCall ==
    /\ pc = "done"
    /\ lens' = getLens(best)
    /\ ants' = g.Ants
    /\ turns' = 1
    /\ pc' = "scan"
    /\ UNCHANGED <<solverVars, assignVars, webVars>>

\* countTurns has returned: starts, trimmed, and the order planned.
AssignReturn ==
    /\ pc = "returned"
    /\ \E s \in trimStarts(countStarts(lens, turns), ants) :
          /\ starts' = s
          /\ order' = planOrder(s)
    /\ pc' = "assigned"
    /\ UNCHANGED <<solverVars, scanVars, webVars>>

NextSolve == Next \/ AssignCall \/ ScanNext \/ ScanReturn \/ AssignReturn

SpecSolve == Init /\ [][NextSolve]_vars

---------------------------------------------------------------------------
\* Properties of assignPaths and of the schedule, checked under SpecSolve.

\* How many tokens the assignment gives the route of index r (from 0).
TokensOn(r) == Cardinality({k \in 1..Len(order) : order[k] = r})

\* assignPaths has returned for a non-empty route set and a token count >= 1.
Assigned == pc = "assigned" /\ best # <<>> /\ g.Ants >= 1

Depart(k) == Cardinality({j \in 1..k : order[j] = order[k]})

RouteOf(k) == best[order[k] + 1]

\* The room token k moves into on turn t; 0 when it does not move.
MoveTo(k, t) ==
    LET hop == t - Depart(k) + 1
    IN IF hop >= 1 /\ hop <= Len(RouteOf(k)) - 1 THEN RouteOf(k)[hop + 1] ELSE 0

\* The turn on which token k moves into End.
Arrival(k) == Depart(k) + Len(RouteOf(k)) - 2

C15_ScanReturns ==
    pc = "scan" => \E T \in turns..ScanCap : Enough(TurnTotal(lens, T), ants)

---------------------------------------------------------------------------
\* The forum's sessions (internal/app/app.go): HandleLogin, HandleLogout and
\* the requests that pass through RequireAuth. Every database statement is
\* one step; the steps of different requests interleave.

MaxSessions == 2
MaxRequests == 4
MaxClock == 3
\* App.SessionTTL, counted in steps of the clock.
SessionTTL == 1

UserIds == {1}

\* The solver is not running.
SolverIdle ==
    /\ g = NoGraph /\ maxPaths = 0 /\ all = <<>> /\ stack = <<>> /\ used = {}
    /\ best = <<>> /\ bestIdx = <<>> /\ bestTurns = MaxInt
    /\ ants = 0 /\ lens = <<>> /\ turns = 0

\* The session ids handed out so far; uuid.NewString() never repeats one.
Issued == {requests[j].cookie : j \in {k \in 1..Len(requests) : requests[k].kind = "login"}}

\* HandleLogout has been processed for the cookie c.
LoggedOut(c) ==
    \E j \in 1..Len(requests) : requests[j].kind = "logout" /\ requests[j].cookie = c

\* The expires_at of the session of cookie c lies in the past.
PastExpiry(c) ==
    \E j \in 1..Len(requests) :
       requests[j].kind = "login" /\ requests[j].cookie = c /\ clock > requests[j].expires

\* The test read the other way round (time.Now().Before(expires)).
ExpiredBefore(now, expires) == now < expires

\* time.Now().After(expires) (line 36)
Expired(now, expires) == now > expires

Request(kind, c, at, u, exp, late) ==
    [kind |-> kind, cookie |-> c, at |-> at, user_id |-> u, expires |-> exp, late |-> late]

InitAuth ==
    /\ pc = "serve"
    /\ SolverIdle /\ AssignIdle /\ AuthIdle /\ PostIdle

\* HandleLogin, POST with valid credentials of user u (lines 232-239).
HandleLogin(u) ==
    /\ pc = "serve" /\ Len(requests) < MaxRequests
    /\ Cardinality(Issued) < MaxSessions
    /\ LET sid == Cardinality(Issued) + 1
       IN /\ sessions' = sessions \cup
                 {[id |-> sid, user_id |-> u, expires_at |-> clock + SessionTTL]}
          /\ requests' = Append(requests,
                 Request("login", sid, "served", u, clock + SessionTTL, FALSE))
    /\ UNCHANGED <<solverVars, pc, scanVars, assignVars, clock, postVars>>

\* HandleLogout (lines 245-252); the cookie 0 is no cookie.
HandleLogout(c) ==
    /\ pc = "serve" /\ Len(requests) < MaxRequests
    /\ sessions' = IF c # 0 THEN {row \in sessions : row.id # c} ELSE sessions
    /\ requests' = Append(requests, Request("logout", c, "served", 0, 0, FALSE))
    /\ UNCHANGED <<solverVars, pc, scanVars, assignVars, clock, postVars>>

\* A request with cookie c reaches a handler wrapped in RequireAuth. late
\* records whether the cookie was logged out or past its expiry by then.
Arrive(c) ==
    /\ pc = "serve" /\ Len(requests) < MaxRequests
    /\ requests' = Append(requests,
           Request("auth", c, "select", 0, 0, LoggedOut(c) \/ PastExpiry(c)))
    /\ UNCHANGED <<solverVars, pc, scanVars, assignVars, sessions, clock, postVars>>

\* CurrentUser: the cookie and the SELECT on sessions (lines 26-35).
SelectSession(i) ==
    /\ pc = "serve" /\ requests[i].kind = "auth" /\ requests[i].at = "select"
    /\ LET rows == {row \in sessions : row.id = requests[i].cookie}
       IN IF requests[i].cookie = 0 \/ rows = {}
          THEN requests' = [requests EXCEPT ![i].at = "redirected"]
          ELSE LET row == CHOOSE r \in rows : TRUE
               IN requests' = [requests EXCEPT ![i].at = "check",
                                               ![i].user_id = row.user_id,
                                               ![i].expires = row.expires_at]
    /\ UNCHANGED <<solverVars, pc, scanVars, assignVars, sessions, clock, postVars>>

\* CurrentUser: the expiry test and its DELETE (lines 36-39).
CheckExpiry(i) ==
    /\ pc = "serve" /\ requests[i].kind = "auth" /\ requests[i].at = "check"
    /\ IF Expired(clock, requests[i].expires)
       THEN /\ sessions' = {row \in sessions : row.id # requests[i].cookie}
            /\ requests' = [requests EXCEPT ![i].at = "redirected"]
       ELSE /\ requests' = [requests EXCEPT ![i].at = "user"]
            /\ UNCHANGED sessions
    /\ UNCHANGED <<solverVars, pc, scanVars, assignVars, clock, postVars>>

\* CurrentUser: the SELECT on users (lines 40-44), and RequireAuth: redirect
\* or next.ServeHTTP (lines 49-53).
SelectUser(i) ==
    /\ pc = "serve" /\ requests[i].kind = "auth" /\ requests[i].at = "user"
    /\ requests' = [requests EXCEPT ![i].at =
           IF requests[i].user_id \in UserIds THEN "served" ELSE "redirected"]
    /\ UNCHANGED <<solverVars, pc, scanVars, assignVars, sessions, clock, postVars>>

\* Time passes.
Tick ==
    /\ pc = "serve" /\ clock < MaxClock
    /\ clock' = clock + 1
    /\ UNCHANGED <<solverVars, pc, scanVars, assignVars, sessions, requests, postVars>>

NextAuth ==
    \/ \E u \in UserIds : HandleLogin(u)
    \/ \E c \in Issued \cup {0} : HandleLogout(c)
    \/ \E c \in Issued \cup {0} : Arrive(c)
    \/ \E i \in 1..Len(requests) : SelectSession(i)
    \/ \E i \in 1..Len(requests) : CheckExpiry(i)
    \/ \E i \in 1..Len(requests) : SelectUser(i)
    \/ Tick

SpecAuth == InitAuth /\ [][NextAuth]_vars

\* C18: a request that arrives with a cookie after HandleLogout was processed
\* for that cookie, or after the session's expires_at has passed, is not
\* authenticated by CurrentUser, so RequireAuth does not run its handler.
C18_NoAuthAfterLogoutOrExpiry ==
    pc = "serve" =>
        \A i \in 1..Len(requests) :
           (requests[i].kind = "auth" /\ requests[i].late) =>
               requests[i].at \notin {"user", "served"}

\* A request served for a cookie before its logout, and a request with the
\* same cookie, arrived after the logout, turned away.
C18_Witness ==
    /\ pc = "serve"
    /\ \E i, j \in 1..Len(requests) :
          /\ i < j /\ requests[i].cookie = requests[j].cookie
          /\ requests[i].kind = "auth" /\ requests[i].at = "served"
          /\ requests[j].kind = "auth" /\ requests[j].late
          /\ LoggedOut(requests[j].cookie) /\ requests[j].at = "redirected"

---------------------------------------------------------------------------
\* The forum's HandleNewPost (internal/app/app.go, lines 254-304), for
\* requests that CurrentUser accepts. Every database statement is one step;
\* the steps of concurrent requests interleave. Text is a sequence of
\* characters.

MaxHandlers == 2

General == <<"G", "e", "n", "e", "r", "a", "l">>
Help == <<"H", "e", "l", "p">>
OffTopic == <<"O", "f", "f", "-", "t", "o", "p", "i", "c">>

\* The rows the schema inserts into categories.
SeedCategories ==
    {[id |-> 1, name |-> General], [id |-> 2, name |-> Help], [id |-> 3, name |-> OffTopic]}

\* The values of the form field category that the requests send.
FormValues ==
    {<<>>, General, <<"a">>, <<" ", "a">>, <<"a", ",", "b">>, <<"a", ",", ",", "a", " ">>}

\* strings.Split(cname, ","), from position k on, cur being the part begun.
RECURSIVE SplitFrom(_, _, _)
SplitFrom(str, k, cur) ==
    IF k > Len(str) THEN <<cur>>
    ELSE IF str[k] = "," THEN <<cur>> \o SplitFrom(str, k + 1, <<>>)
    ELSE SplitFrom(str, k + 1, Append(cur, str[k]))

RECURSIVE TrimLeft(_)
TrimLeft(str) == IF str # <<>> /\ Head(str) = " " THEN TrimLeft(Tail(str)) ELSE str

RECURSIVE TrimRight(_)
TrimRight(str) ==
    IF str # <<>> /\ str[Len(str)] = " " THEN TrimRight(SubSeq(str, 1, Len(str) - 1)) ELSE str

\* strings.TrimSpace(part)
TrimSpace(str) == TrimRight(TrimLeft(str))

\* The names the loop of lines 278-297 works on, in its order: the parts
\* trimmed, the empty and the seen ones skipped.
RECURSIVE NamesFrom(_, _, _)
NamesFrom(parts, k, seen) ==
    IF k > Len(parts) THEN <<>>
    ELSE LET c == TrimSpace(parts[k])
         IN IF c = <<>> \/ c \in seen THEN NamesFrom(parts, k + 1, seen)
            ELSE <<c>> \o NamesFrom(parts, k + 1, seen \cup {c})

Names(form) == NamesFrom(SplitFrom(form, 1, <<>>), 1, {})

\* The id a table gives its next row.
NextId(ids) == IF ids = {} THEN 1 ELSE (CHOOSE m \in ids : \A x \in ids : m >= x) + 1

Handler(form, filled, at, pid, todo, cid) ==
    [form |-> form, filled |-> filled, at |-> at, pid |-> pid, todo |-> todo, cid |-> cid]

InitPost ==
    /\ pc = "serve"
    /\ SolverIdle /\ AssignIdle /\ AuthIdle
    /\ posts = {}
    /\ categories = SeedCategories
    /\ postCategories = {}
    /\ handlers = <<>>

\* A POST to /post/new arrives; filled tells whether title and body are.
ReceivePost(form, filled) ==
    /\ pc = "serve" /\ Len(handlers) < MaxHandlers
    /\ handlers' = Append(handlers, Handler(form, filled, "start", 0, <<>>, 0))
    /\ UNCHANGED <<solverVars, pc, scanVars, assignVars, authVars,
                   posts, categories, postCategories>>

\* The test of title and body and the INSERT INTO posts (lines 265-276).
InsertPost(h) ==
    /\ pc = "serve" /\ handlers[h].at = "start"
    /\ IF ~handlers[h].filled
       THEN /\ handlers' = [handlers EXCEPT ![h].at = "rejected"]
            /\ UNCHANGED posts
       ELSE LET pid == NextId(posts)
                todo == Names(handlers[h].form)
            IN /\ posts' = posts \cup {pid}
               /\ handlers' = [handlers EXCEPT ![h].pid = pid, ![h].todo = todo,
                                   ![h].at = IF todo = <<>> THEN "done" ELSE "select"]
    /\ UNCHANGED <<solverVars, pc, scanVars, assignVars, authVars,
                   categories, postCategories>>

\* var cid int64; SELECT id FROM categories WHERE name=? (lines 285-286).
SelectCategory(h) ==
    /\ pc = "serve" /\ handlers[h].at = "select"
    /\ LET rows == {row \in categories : row.name = Head(handlers[h].todo)}
       IN IF rows = {}
          THEN handlers' = [handlers EXCEPT ![h].cid = 0, ![h].at = "insert"]
          ELSE handlers' = [handlers EXCEPT ![h].cid = (CHOOSE r \in rows : TRUE).id,
                                            ![h].at = "link"]
    /\ UNCHANGED <<solverVars, pc, scanVars, assignVars, authVars,
                   posts, categories, postCategories>>

\* INSERT INTO categories(name) after sql.ErrNoRows (lines 287-292); the
\* insert fails on the UNIQUE name when a row of that name is there by now.
InsertCategory(h) ==
    /\ pc = "serve" /\ handlers[h].at = "insert"
    /\ LET c == Head(handlers[h].todo)
           id == NextId({row.id : row \in categories})
       IN IF \E row \in categories : row.name = c
          THEN /\ handlers' = [handlers EXCEPT ![h].at = "link"]
               /\ UNCHANGED categories
          ELSE /\ categories' = categories \cup {[id |-> id, name |-> c]}
               /\ handlers' = [handlers EXCEPT ![h].cid = id, ![h].at = "link"]
    /\ UNCHANGED <<solverVars, pc, scanVars, assignVars, authVars,
                   posts, postCategories>>

\* if cid != 0: INSERT OR IGNORE INTO post_categories (lines 293-295), then
\* the next name, or the redirect (line 299).
LinkCategory(h) ==
    /\ pc = "serve" /\ handlers[h].at = "link"
    /\ postCategories' =
          IF handlers[h].cid # 0
          THEN postCategories \cup {<<handlers[h].pid, handlers[h].cid>>}
          ELSE postCategories
    /\ LET rest == Tail(handlers[h].todo)
       IN handlers' = [handlers EXCEPT ![h].todo = rest,
                           ![h].at = IF rest = <<>> THEN "done" ELSE "select"]
    /\ UNCHANGED <<solverVars, pc, scanVars, assignVars, authVars,
                   posts, categories>>

NextPost ==
    \/ \E form \in FormValues, filled \in BOOLEAN : ReceivePost(form, filled)
    \/ \E h \in 1..Len(handlers) : InsertPost(h)
    \/ \E h \in 1..Len(handlers) : SelectCategory(h)
    \/ \E h \in 1..Len(handlers) : InsertCategory(h)
    \/ \E h \in 1..Len(handlers) : LinkCategory(h)

SpecPost == InitPost /\ [][NextPost]_vars

\* C19: every post created with a category name c is, once its request is
\* done, linked in post_categories to the categories row named c, whichever
\* way the requests interleave.
C19_EveryCategoryLinked ==
    pc = "serve" =>
        \A h \in 1..Len(handlers) :
           handlers[h].at = "done" =>
               \A c \in Range(Names(handlers[h].form)) :
                  \E row \in categories :
                     row.name = c /\ <<handlers[h].pid, row.id>> \in postCategories


=============================================================================
